---- MODULE Spec2Model ----
(***************************************************************************)
(* The detachable-frame manager of glide-frame (GlideFrameProvider and its *)
(* DetachableRenderer), together with the z-index counters of the other    *)
(* frame kinds.  Lengths are fixed-point numbers in hundredths of a pixel  *)
(* (Px(n) is n pixels), so that momentum velocities such as 1.5 px per     *)
(* tick and the friction factor 0.92 have a representation.                *)
(***************************************************************************)
EXTENDS Integers, Sequences, FiniteSets, TLC

VARIABLES
  detachables,        \* Map<string, DetachableState> of GlideFrameProvider
  globalZIndex,       \* the module counter of the provider
  viewport,           \* window.innerWidth / window.innerHeight
  renderer,           \* per id: refs and state of its DetachableRenderer
  pending,            \* per id: requestAnimationFrame callbacks not yet run
  observed,           \* which history the run keeps: "ops" or "z"
  lastOp,             \* history: the operation of the last step and its arguments
  regTrack,           \* history: progress of register -> unregister -> register per id
  maxTrack,           \* history: progress of detach -> maximize (once or twice) ->
                      \* restore per id
  fronts,             \* history: ids of the latest consecutive bringToFront calls
  lastFront,          \* history: id of the latest bringToFront call
  lastIssued,         \* history: id of the frame that got the latest z-index
  hookZIndex,         \* the module counter of useGlideFrame
  hook,               \* state of a mounted useGlideFrame window, Null when unmounted
  stored,             \* the localStorage entry under the window's key, Null when absent
  persist,            \* the persist option of the window
  storeFault,         \* the localStorage calls that throw: subset of get, set, remove
  lastStore,          \* history: the action behind the last state change of the
                      \* window, its localStorage calls, and whether an exception
                      \* left the hook
  hookFrame,          \* the requestAnimationFrame callback of the GlideFrame
                      \* window that has not run yet: position and velocity
  pageOf,             \* per id: whether a DetachableContent declaring it is
                      \* mounted, and (history) whether the teardown of one
                      \* left the record in place
  frames,             \* FrameConfig[] of GlideFrameProvider: the open windows
  modeTrack           \* history: position and size the window had when it last
                      \* left the normal state, and whether only minimize and
                      \* maximize have acted since

vars == <<detachables, globalZIndex, viewport, renderer, pending,
          observed, lastOp, regTrack, maxTrack, fronts, lastFront, lastIssued,
          hookZIndex, hook, stored, persist, storeFault, lastStore, hookFrame,
          pageOf, frames, modeTrack>>

\* ------------------------------------------------------------------ bounds
MaxIssue == 4          \* z-index values the provider counter may issue in a run
MaxIssueZ == 7         \* the same, in the specification of two frames
MaxIssueM == 4         \* the same, in the specification of slow throws
MaxIssueL == 4         \* the same, in the specification of delivered ticks
MaxIssueV == 4         \* the same, in the specification of the wide viewport
MaxIssueG == 5         \* the same, in the specification of the page that comes and goes
MaxIssueO == 6         \* the same, in the specification of remounted frames
MaxIssueU == 6         \* the same, in the specification of the docked handle
MaxIssueC == 5         \* the same, in the specification of the two counters
MaxHookIssue == 5      \* z-index values the useGlideFrame counter may issue there
MaxHookIssueP == 5      \* the same, in the specification of the stored layout
MaxHookIssueS == 4      \* the same, in the specification of the failing store
MaxHookIssueR == 6     \* the same, in the specification of the modes
MaxHookIssueT == 4     \* the same, in the specification of the thrown window
MaxHookIssueK == 9002  \* the same, in the specification of the frame kinds

\* ------------------------------------------------------------- environment
Ids == {"a", "b"}
SoloIds == {"a"}            \* the frame of the single-frame specification
Contents == {"c1", "c2"}
Null == [null |-> TRUE]

Px(n) == n * 100
Pos(x, y) == [x |-> Px(x), y |-> Px(y)]
Size(w, h) == [width |-> Px(w), height |-> Px(h)]
Rect(x, y, w, h) == [x |-> Px(x), y |-> Px(y), width |-> Px(w), height |-> Px(h)]

Viewports == {Size(360, 640)}
SlotRects == {Rect(50, 50, 300, 200)}
DragPositions == {Pos(0, 100), Pos(32, 100)}
DragIntervals == {16, 100}         \* milliseconds between two drag samples
ResizeSizes == {Size(320, 240)}

\* slow drags near the left edge: 4 px and 3.98 px in 16 ms sample as 2 and
\* 1.99 px per tick
SlowDragPositions == {[x |-> 0, y |-> Px(100)], [x |-> 398, y |-> Px(100)],
                      [x |-> 400, y |-> Px(100)], [x |-> 0, y |-> Px(96)]}
EdgeReleases == {Pos(0, 0), Pos(0, 100)}

\* drags of 4 px in 16 ms (2 px per tick) along x or y, released 10 px from
\* the left edge of the viewport or at it
LiveDragPositions == {Pos(20, 100), Pos(20, 104), Pos(24, 100)}
LiveReleases == {Pos(10, 100), Pos(0, 100)}

\* a viewport wider than the default size of a detachable frame (480 x 320)
WideViewports == {Size(500, 640)}

\* viewports, drag-stop positions and resize results of the GlideFrame window
HookViewports == {Size(1280, 800), Size(360, 640)}
HookPositions == {Pos(40, 40)}
HookSizes == {Size(400, 300)}
\* the windows a page opens through the provider: ids and titles
FrameIds == {"f1", "f2", "f3"}
FrameTitles == {"t1", "t2"}
FrameConfigs == [id : FrameIds, title : FrameTitles]
\* sampled velocities of slow throws of the window, down and to the right
HookVelocities == {[vx |-> 0, vy |-> 104], [vx |-> 104, vy |-> 0]}

\* viewports, slot rectangles and register options for the detach geometry:
\* phone, desktop, a low window and a narrow desktop; a small, a wide and an
\* oversized slot; header height absent or 60, aspect ratio locked or not
DetachViewports == {Size(360, 640), Size(1280, 800), Size(800, 300), Size(768, 600)}
DetachSlotRects == {Rect(50, 50, 300, 200), Rect(200, 300, 900, 200), Rect(0, 0, 1400, 900)}
DetachOptions ==
  { [lockAspectRatio |-> l, headerHeight |-> h, defaultSize |-> Null] :
      l \in BOOLEAN, h \in {0, Px(60)} }

\* what the store may hold when the page loads: nothing, text that is not
\* JSON, or the entry of an earlier session; and the calls that may throw
Malformed == [malformed |-> TRUE]
PriorEntries ==
  { Null, Malformed,
    [position |-> Pos(40, 40), size |-> Size(400, 300),
     isMinimized |-> FALSE, isMaximized |-> FALSE] }
StoreFaults == { {}, {"get"}, {"set"}, {"remove"} }

\* options of a register call: lockAspectRatio, headerStyle.height (0 when
\* absent) and defaultSize (Null when absent)
RegisterOptions ==
  { [lockAspectRatio |-> FALSE, headerHeight |-> 0, defaultSize |-> Null] }

\* --------------------------------------------------------------- constants
INITIAL_Z_INDEX == 10000
BASE_Z_INDEX == 1000
MAXIMIZE_PADDING == 20
MOBILE_WIDTH == 768
DEFAULT_HEADER_HEIGHT == 44
MOMENTUM_FRICTION == 92        \* 0.92, in hundredths
MOMENTUM_MIN_VELOCITY == 50    \* 0.5 px per tick, in hundredths
MOMENTUM_MULTIPLIER == 8
DOCK_MIN_VELOCITY == 200       \* 2 px per tick, in hundredths

Min(a, b) == IF a < b THEN a ELSE b
Max(a, b) == IF a > b THEN a ELSE b
Abs(a) == IF a < 0 THEN -a ELSE a

\* ------------------------------------------------------------ z-order
\* variant: a counter that hands out its current value again
getNextZIndexSame(counter) == counter

\* getNextZIndex = () => ++globalZIndex : the value returned
getNextZIndex(counter) == counter + 1

\* the run stays within the bound on issued values
WithinIssue == globalZIndex' <= INITIAL_Z_INDEX + MaxIssue
WithinIssueZ == globalZIndex' <= INITIAL_Z_INDEX + MaxIssueZ
WithinIssueC == globalZIndex' <= INITIAL_Z_INDEX + MaxIssueC
WithinIssueM == globalZIndex' <= INITIAL_Z_INDEX + MaxIssueM
WithinIssueU == globalZIndex' <= INITIAL_Z_INDEX + MaxIssueU
WithinIssueL == globalZIndex' <= INITIAL_Z_INDEX + MaxIssueL
WithinIssueV == globalZIndex' <= INITIAL_Z_INDEX + MaxIssueV
WithinIssueG == globalZIndex' <= INITIAL_Z_INDEX + MaxIssueG
WithinIssueO == globalZIndex' <= INITIAL_Z_INDEX + MaxIssueO
WithinHookIssue == hookZIndex' <= BASE_Z_INDEX + MaxHookIssue
WithinHookIssueP == hookZIndex' <= BASE_Z_INDEX + MaxHookIssueP
WithinHookIssueT == hookZIndex' <= BASE_Z_INDEX + MaxHookIssueT
WithinHookIssueR == hookZIndex' <= BASE_Z_INDEX + MaxHookIssueR
WithinHookIssueS == hookZIndex' <= BASE_Z_INDEX + MaxHookIssueS
WithinHookIssueK == hookZIndex' <= BASE_Z_INDEX + MaxHookIssueK

\* ------------------------------------------------------------ registry
Has(map, id) == id \in DOMAIN map

MapSet(map, id, item) ==
  [k \in DOMAIN map \cup {id} |-> IF k = id THEN item ELSE map[k]]

MapDelete(map, id) == [k \in DOMAIN map \ {id} |-> map[k]]

\* the record register() stores for an unknown id
NewItem(content, options, z) ==
  LET defaultSize == IF options.defaultSize = Null THEN Size(480, 320)
                     ELSE options.defaultSize
  IN [ content |-> content,
       lockAspectRatio |-> options.lockAspectRatio,
       headerHeight |-> options.headerHeight,
       isDetached |-> FALSE,
       isDocked |-> FALSE,
       dockedSide |-> "null",
       dockedY |-> Px(100),
       isMaximized |-> FALSE,
       position |-> Pos(100, 100),
       size |-> defaultSize,
       originalSize |-> defaultSize,
       zIndex |-> z,
       slotRect |-> Null,
       preMaximizeState |-> Null,
       aspectRatio |-> Null ]

\* variant: a register that replaces the content of a known id
RegisterOverwrites(prev, id, content, options, z) ==
  IF Has(prev, id) THEN MapSet(prev, id, [prev[id] EXCEPT !.content = content])
  ELSE MapSet(prev, id, NewItem(content, options, z))

\* register(id, content, options): the updater passed to setDetachables
RegisterUpdate(prev, id, content, options, z) ==
  IF Has(prev, id) THEN prev
  ELSE MapSet(prev, id, NewItem(content, options, z))

\* variants: an unregister that always removes, and one that never does
UnregisterAlways(prev, id) == MapDelete(prev, id)

UnregisterNever(prev, id) == prev

\* unregister(id): the updater passed to setDetachables
UnregisterUpdate(prev, id) ==
  IF Has(prev, id) /\ (prev[id].isDetached \/ prev[id].isDocked) THEN prev
  ELSE MapDelete(prev, id)

\* updateSlot(id, rect): the updater passed to setDetachables
SameRect(r1, r2) ==
  /\ Abs(r1.x - r2.x) < Px(1)
  /\ Abs(r1.y - r2.y) < Px(1)
  /\ Abs(r1.width - r2.width) < Px(1)
  /\ Abs(r1.height - r2.height) < Px(1)

\* variant: an updateSlot that ignores the null of a teardown
UpdateSlotKeepsRect(prev, id, rect) ==
  IF ~Has(prev, id) \/ rect = Null THEN prev
  ELSE IF prev[id].slotRect # Null /\ SameRect(prev[id].slotRect, rect)
       THEN prev
       ELSE MapSet(prev, id, [prev[id] EXCEPT !.slotRect = rect])

\* variant: an updateSlot that creates a record for an unknown id
UpdateSlotCreates(prev, id, rect) ==
  IF ~Has(prev, id)
  THEN MapSet(prev, id, [NewItem("", [lockAspectRatio |-> FALSE, headerHeight |-> 0,
                                      defaultSize |-> Null], 0) EXCEPT !.slotRect = rect])
  ELSE MapSet(prev, id, [prev[id] EXCEPT !.slotRect = rect])

UpdateSlotUpdate(prev, id, rect) ==
  IF ~Has(prev, id) THEN prev
  ELSE IF prev[id].slotRect # Null /\ rect # Null /\ SameRect(prev[id].slotRect, rect)
       THEN prev
       ELSE MapSet(prev, id, [prev[id] EXCEPT !.slotRect = rect])

\* variant: a detach width without the lower clamp to 400
DetachWidthNoFloor(rect, vw) == Min(rect.width, vw - Px(40))

\* detach(id): the floating geometry computed from the slot rectangle
DetachWidth(rect, vw) ==
  IF vw < Px(MOBILE_WIDTH) THEN Min(rect.width, vw - Px(40))
  ELSE Min(Max(rect.width, Px(400)), vw - Px(40))

DetachHeight(rect, headerHeight, vh) ==
  Min(rect.height + headerHeight, vh - Px(100))

HeaderHeightOf(item) ==
  IF item.headerHeight # 0 THEN item.headerHeight ELSE Px(DEFAULT_HEADER_HEIGHT)

\* variant: a detach that floats the frame even without a slot rectangle
DetachWithoutRect(prev, id, vp, z) ==
  IF ~Has(prev, id) THEN prev
  ELSE MapSet(prev, id, [prev[id] EXCEPT !.isDetached = TRUE, !.isDocked = FALSE,
                                         !.dockedSide = "null", !.zIndex = z])

\* variant: a detach that keeps the z-index the frame had
DetachKeepsZIndex(prev, id, vp, z) ==
  IF ~Has(prev, id) \/ prev[id].slotRect = Null THEN prev
  ELSE MapSet(prev, id,
         [prev[id] EXCEPT !.isDetached = TRUE, !.isDocked = FALSE, !.dockedSide = "null"])

DetachUpdate(prev, id, vp, z) ==
  IF ~Has(prev, id) \/ prev[id].slotRect = Null THEN prev
  ELSE LET item == prev[id]
           rect == item.slotRect
           isMobile == vp.width < Px(MOBILE_WIDTH)
           width == DetachWidth(rect, vp.width)
           height == DetachHeight(rect, HeaderHeightOf(item), vp.height)
       IN MapSet(prev, id,
            [item EXCEPT !.isDetached = TRUE,
                         !.isDocked = FALSE,
                         !.dockedSide = "null",
                         !.position = [x |-> Px(20), y |-> IF isMobile THEN Px(60) ELSE Px(80)],
                         !.size = [width |-> width, height |-> height],
                         !.originalSize = [width |-> rect.width, height |-> rect.height],
                         !.zIndex = z,
                         !.aspectRatio = IF item.lockAspectRatio
                                         THEN [num |-> width, den |-> height]
                                         ELSE Null])

\* attach(id): the updater passed to setDetachables
AttachUpdate(prev, id) ==
  IF ~Has(prev, id) THEN prev
  ELSE MapSet(prev, id,
         [prev[id] EXCEPT !.isDetached = FALSE,
                          !.isDocked = FALSE,
                          !.dockedSide = "null",
                          !.isMaximized = FALSE])

\* updateItem(updates) of DetachableRenderer: merge into the current record
UpdateItem(prev, id, item) == IF ~Has(prev, id) THEN prev ELSE MapSet(prev, id, item)

\* query accessors
isDetached(id) == IF Has(detachables, id) THEN detachables[id].isDetached ELSE FALSE
isDocked(id) == IF Has(detachables, id) THEN detachables[id].isDocked ELSE FALSE
isRegistered(id) == Has(detachables, id)

\* which branch DetachableRenderer renders for a record
RendersInline(item) == ~item.isDetached /\ ~item.isDocked
RendersHandle(item) == item.isDocked
RendersFloating(item) == ~RendersInline(item) /\ ~RendersHandle(item)

\* ---------------------------------------------------- DetachableRenderer
\* refs and state of a freshly mounted DetachableRenderer
FreshRenderer ==
  [ dragging |-> FALSE,
    lastPositionRef |-> Null,
    velocityRef |-> [vx |-> 0, vy |-> 0],
    animationFrameRef |-> 0,
    isMomentumActive |-> FALSE ]

\* variant: a bringToFront that stores the value before the increment
BringToFrontStale(prev, id, z) ==
  IF ~Has(prev, id) THEN prev ELSE MapSet(prev, id, [prev[id] EXCEPT !.zIndex = z - 1])

\* bringToFront: updateItem({ zIndex: getNextZIndex() })
BringToFrontUpdate(prev, id, z) ==
  IF ~Has(prev, id) THEN prev ELSE UpdateItem(prev, id, [prev[id] EXCEPT !.zIndex = z])

\* dockLeft / dockRight
DockUpdate(prev, id, side, y) ==
  IF ~Has(prev, id) THEN prev
  ELSE UpdateItem(prev, id,
         [prev[id] EXCEPT !.isDocked = TRUE, !.dockedSide = side,
                          !.dockedY = y, !.isMaximized = FALSE])

\* undock, called with the item of the last render
UndockUpdate(prev, id, item, vp, z) ==
  IF ~Has(prev, id) THEN prev
  ELSE LET newX == IF item.dockedSide = "left" THEN Px(20)
                   ELSE vp.width - item.size.width - Px(20)
       IN UpdateItem(prev, id,
            [prev[id] EXCEPT !.isDocked = FALSE, !.dockedSide = "null",
                             !.position = [x |-> newX, y |-> item.dockedY],
                             !.zIndex = z])

\* maximize, called with the item of the last render
MaximizeUpdate(prev, id, item, vp) ==
  IF ~Has(prev, id) \/ item.isMaximized THEN prev
  ELSE UpdateItem(prev, id,
         [prev[id] EXCEPT !.preMaximizeState = [position |-> item.position, size |-> item.size],
                          !.position = [x |-> 0, y |-> 0],
                          !.size = [width |-> vp.width, height |-> vp.height],
                          !.isMaximized = TRUE])

\* restore, called with the item of the last render
RestoreUpdate(prev, id, item) ==
  IF ~Has(prev, id) \/ ~(item.isMaximized /\ item.preMaximizeState # Null) THEN prev
  ELSE UpdateItem(prev, id,
         [prev[id] EXCEPT !.position = item.preMaximizeState.position,
                          !.size = item.preMaximizeState.size,
                          !.isMaximized = FALSE])

\* updateItem({ position }) and updateItem({ size, position })
PositionUpdate(prev, id, pos) ==
  IF ~Has(prev, id) THEN prev ELSE UpdateItem(prev, id, [prev[id] EXCEPT !.position = pos])

ResizeUpdate(prev, id, item, size, pos) ==
  IF ~Has(prev, id) \/ item.isMaximized THEN prev
  ELSE UpdateItem(prev, id, [prev[id] EXCEPT !.size = size, !.position = pos])

\* ------------------------------------------------------ momentum physics
\* variant: a friction that takes nothing off the velocity
FrictionNone(v) == v

\* v * MOMENTUM_FRICTION, kept to a hundredth of a pixel (rounded toward 0)
Friction(v) ==
  IF v >= 0 THEN (v * MOMENTUM_FRICTION) \div 100
  ELSE -(((-v) * MOMENTUM_FRICTION) \div 100)

\* velocity sample of handleDrag: (delta / dt) * MOMENTUM_MULTIPLIER
Sample(delta, dt) ==
  IF delta >= 0 THEN (delta * MOMENTUM_MULTIPLIER) \div dt
  ELSE -(((-delta) * MOMENTUM_MULTIPLIER) \div dt)

SpeedSquared(vel) == vel.vx * vel.vx + vel.vy * vel.vy

\* variant: docking only above the threshold speed, not at it
MomentumStepStrict(currentPos, velocity, size, vp) ==
  LET rawX == currentPos.x + velocity.vx
      rawY == currentPos.y + velocity.vy
      hitLeftEdge == rawX <= 0
      leftX == IF hitLeftEdge THEN 0 ELSE rawX
      hitRightEdge == leftX >= vp.width - size.width
      newX == IF hitRightEdge THEN vp.width - size.width ELSE leftX
      newY == Max(0, Min(rawY, vp.height - size.height))
      fast == SpeedSquared(velocity) > DOCK_MIN_VELOCITY * DOCK_MIN_VELOCITY
      slowed == [vx |-> Friction(velocity.vx), vy |-> Friction(velocity.vy)]
  IN [ outcome |-> IF hitLeftEdge /\ fast THEN "dockLeft"
                   ELSE IF hitRightEdge /\ fast THEN "dockRight"
                   ELSE IF hitLeftEdge \/ hitRightEdge THEN "edge"
                   ELSE IF Abs(slowed.vx) > MOMENTUM_MIN_VELOCITY
                           \/ Abs(slowed.vy) > MOMENTUM_MIN_VELOCITY THEN "continue"
                   ELSE "rest",
       position |-> [x |-> newX, y |-> newY],
       velocity |-> slowed ]

\* variant: a slow hit of an edge that lets the animation go on
MomentumStepThroughEdge(currentPos, velocity, size, vp) ==
  LET rawX == currentPos.x + velocity.vx
      rawY == currentPos.y + velocity.vy
      hitLeftEdge == rawX <= 0
      leftX == IF hitLeftEdge THEN 0 ELSE rawX
      hitRightEdge == leftX >= vp.width - size.width
      newX == IF hitRightEdge THEN vp.width - size.width ELSE leftX
      newY == Max(0, Min(rawY, vp.height - size.height))
      fast == SpeedSquared(velocity) >= DOCK_MIN_VELOCITY * DOCK_MIN_VELOCITY
      slowed == [vx |-> Friction(velocity.vx), vy |-> Friction(velocity.vy)]
  IN [ outcome |-> IF hitLeftEdge /\ fast THEN "dockLeft"
                   ELSE IF hitRightEdge /\ fast THEN "dockRight"
                   ELSE IF Abs(slowed.vx) > MOMENTUM_MIN_VELOCITY
                           \/ Abs(slowed.vy) > MOMENTUM_MIN_VELOCITY THEN "continue"
                   ELSE "rest",
       position |-> [x |-> newX, y |-> newY],
       velocity |-> slowed ]

\* one run of animateMomentumRef.current(currentPos, velocity) for a frame of
\* the given size: what it does and the position and velocity it leaves
MomentumStep(currentPos, velocity, size, vp) ==
  LET rawX == currentPos.x + velocity.vx
      rawY == currentPos.y + velocity.vy
      hitLeftEdge == rawX <= 0
      leftX == IF hitLeftEdge THEN 0 ELSE rawX
      hitRightEdge == leftX >= vp.width - size.width
      newX == IF hitRightEdge THEN vp.width - size.width ELSE leftX
      newY == Max(0, Min(rawY, vp.height - size.height))
      fast == SpeedSquared(velocity) >= DOCK_MIN_VELOCITY * DOCK_MIN_VELOCITY
      slowed == [vx |-> Friction(velocity.vx), vy |-> Friction(velocity.vy)]
  IN [ outcome |-> IF hitLeftEdge /\ fast THEN "dockLeft"
                   ELSE IF hitRightEdge /\ fast THEN "dockRight"
                   ELSE IF hitLeftEdge \/ hitRightEdge THEN "edge"
                   ELSE IF Abs(slowed.vx) > MOMENTUM_MIN_VELOCITY
                           \/ Abs(slowed.vy) > MOMENTUM_MIN_VELOCITY THEN "continue"
                   ELSE "rest",
       position |-> [x |-> newX, y |-> newY],
       velocity |-> slowed ]

\* the record map after that run
MomentumUpdate(prev, id, step) ==
  IF step.outcome = "dockLeft" THEN DockUpdate(prev, id, "left", step.position.y)
  ELSE IF step.outcome = "dockRight" THEN DockUpdate(prev, id, "right", step.position.y)
  ELSE PositionUpdate(prev, id, step.position)

\* requestAnimationFrame: a handle not in use
FreeHandles(ticks, ref) ==
  {h \in 1..(Cardinality(ticks) + 2) : h # ref /\ \A t \in ticks : t.h # h}

NewHandle(ticks, ref) ==
  CHOOSE h \in FreeHandles(ticks, ref) : \A g \in FreeHandles(ticks, ref) : h <= g

\* the callbacks of a frame after a run of animateMomentumRef that took
\* `done` off the queue (Null for the run inside handleDragStop)
Reschedule(ticks, ref, done, step, frozen) ==
  LET rest == ticks \ {done}
  IN IF step.outcome = "continue"
     THEN rest \cup {[h |-> NewHandle(rest, ref), position |-> step.position,
                      velocity |-> step.velocity, frozen |-> frozen]}
     ELSE rest

\* --------------------------------------------------------------- history
NoPage == [mounted |-> FALSE, retained |-> FALSE]
NoRegTrack == [stage |-> "none", first |-> "", second |-> ""]
NoMaxTrack == [stage |-> "none", position |-> Null, size |-> Null, fromMaximized |-> FALSE]

RegTrackStep(rt, op, old, new, id, content) ==
  IF Has(new, id) /\ (new[id].isDetached \/ new[id].isDocked) THEN NoRegTrack
  ELSE IF op = "register"
       THEN IF rt.stage = "ru"
            THEN [stage |-> "rur", first |-> rt.first, second |-> content]
            ELSE IF ~Has(old, id)
                 THEN [stage |-> "r", first |-> content, second |-> ""]
                 ELSE rt
  ELSE IF op = "unregister"
       THEN IF rt.stage = "r" THEN [rt EXCEPT !.stage = "ru"] ELSE NoRegTrack
  ELSE rt

MaxTrackStep(mt, op, old, new, id) ==
  IF op = "detach" /\ Has(old, id) /\ old[id].slotRect # Null
  THEN [stage |-> "d", position |-> new[id].position, size |-> new[id].size,
        fromMaximized |-> old[id].isMaximized]
  ELSE IF op = "maximize" /\ mt.stage = "d" THEN [mt EXCEPT !.stage = "dm"]
  ELSE IF op = "maximize" /\ mt.stage = "dm" THEN [mt EXCEPT !.stage = "dmm"]
  ELSE IF op = "restore" /\ mt.stage = "dm" THEN [mt EXCEPT !.stage = "dmr"]
  ELSE IF op = "restore" /\ mt.stage = "dmm" THEN [mt EXCEPT !.stage = "dmmr"]
  ELSE NoMaxTrack

\* the calls that take a value from the counter for the frame
Issues(op, old, id) ==
  \/ op \in {"bringToFront", "dragStart", "undock"}
  \/ op = "register" /\ ~Has(old, id)
  \/ op = "detach" /\ Has(old, id) /\ old[id].slotRect # Null

LastThree(s) == IF Len(s) <= 3 THEN s ELSE SubSeq(s, Len(s) - 2, Len(s))

\* ----------------------------------------------------------------- render
\* React renders the new map: a renderer exists exactly for the registered
\* ids, a drag in progress ends when the Rnd element leaves the tree, and the
\* callbacks an unmounted renderer left behind keep its last item
AfterRender(new, r) ==
  [i \in Ids |->
     IF ~Has(new, i) THEN FreshRenderer
     ELSE [r[i] EXCEPT !.dragging = @ /\ RendersFloating(new[i])]]

Freeze(old, new, p) ==
  [i \in Ids |->
     IF Has(old, i) /\ ~Has(new, i)
     THEN {[t EXCEPT !.frozen = IF @ = Null THEN old[i].size ELSE @] : t \in p[i]}
     ELSE p[i]]

CommitPage(op, id, arg, new, r, p, pg) ==
  /\ detachables' = new
  /\ pageOf' = pg
  /\ renderer' = AfterRender(new, r)
  /\ pending' = Freeze(detachables, new, p)
  /\ IF observed = "ops"
     THEN /\ lastOp' = [op |-> op, id |-> id, arg |-> arg]
          /\ regTrack' = [regTrack EXCEPT ![id] = RegTrackStep(@, op, detachables, new, id, arg)]
          /\ maxTrack' = [maxTrack EXCEPT ![id] = MaxTrackStep(@, op, detachables, new, id)]
          /\ UNCHANGED <<fronts, lastFront, lastIssued>>
     ELSE IF observed = "z"
     THEN /\ fronts' = IF op = "bringToFront" THEN LastThree(Append(fronts, id)) ELSE <<>>
          /\ lastFront' = IF op = "bringToFront" THEN id ELSE lastFront
          /\ lastIssued' = IF Issues(op, detachables, id) THEN id ELSE lastIssued
          /\ UNCHANGED <<lastOp, regTrack, maxTrack>>
     ELSE UNCHANGED <<lastOp, regTrack, maxTrack, fronts, lastFront, lastIssued>>
  /\ UNCHANGED <<viewport, observed, hookZIndex, hook, stored, persist, storeFault,
                 lastStore, hookFrame, frames, modeTrack>>

\* a call of the manager that is not the mount or teardown of a page
Commit(op, id, arg, new, r, p) == CommitPage(op, id, arg, new, r, p, pageOf)

\* the history of the store calls
NoStoreCalls == [op |-> "none", calls |-> {}, escaped |-> FALSE]

\* ------------------------------------------------------------------ Init
StartWith(obs, viewports, persists, faults, entries) ==
  /\ observed = obs
  /\ detachables = <<>>
  /\ globalZIndex = INITIAL_Z_INDEX
  /\ viewport \in viewports
  /\ renderer = [i \in Ids |-> FreshRenderer]
  /\ pending = [i \in Ids |-> {}]
  /\ lastOp = [op |-> "init", id |-> "", arg |-> ""]
  /\ regTrack = [i \in Ids |-> NoRegTrack]
  /\ maxTrack = [i \in Ids |-> NoMaxTrack]
  /\ fronts = <<>>
  /\ lastFront = ""
  /\ lastIssued = ""
  /\ hookZIndex = BASE_Z_INDEX
  /\ hook = Null
  /\ stored \in entries
  /\ persist \in persists
  /\ storeFault \in faults
  /\ lastStore = NoStoreCalls
  /\ hookFrame = Null
  /\ pageOf = [i \in Ids |-> NoPage]
  /\ frames = <<>>
  /\ modeTrack = Null

\* persist defaults to true; a store that works and holds no entry
StartIn(obs, viewports) == StartWith(obs, viewports, {TRUE}, {{}}, {Null})

Start(obs) == StartIn(obs, Viewports)

Init == Start("ops")
InitD == StartIn("ops", DetachViewports)
InitV == StartIn("ops", WideViewports)
InitZ == Start("z")
InitC == Start("none")
InitP == StartIn("none", HookViewports)
InitT == StartWith("store", HookViewports, BOOLEAN, {{}}, {Null})
InitR == StartWith("store", HookViewports, {TRUE}, {{}}, {Null})
InitS == StartWith("store", HookViewports, BOOLEAN, StoreFaults, PriorEntries)

\* ------------------------------------------------------ provider actions
Register(id, content, options) ==
  /\ globalZIndex' = IF Has(detachables, id) THEN globalZIndex
                     ELSE getNextZIndex(globalZIndex)
  /\ Commit("register", id, content,
            RegisterUpdate(detachables, id, content, options, getNextZIndex(globalZIndex)),
            renderer, pending)

Unregister(id) ==
  /\ UNCHANGED globalZIndex
  /\ Commit("unregister", id, "", UnregisterUpdate(detachables, id), renderer, pending)

UpdateSlot(id, rect) ==
  /\ UNCHANGED globalZIndex
  /\ Commit("updateSlot", id, "", UpdateSlotUpdate(detachables, id, rect), renderer, pending)

Detach(id) ==
  LET effective == Has(detachables, id) /\ detachables[id].slotRect # Null
  IN /\ globalZIndex' = IF effective THEN getNextZIndex(globalZIndex) ELSE globalZIndex
     /\ Commit("detach", id, "",
               DetachUpdate(detachables, id, viewport, getNextZIndex(globalZIndex)),
               renderer, pending)

Attach(id) ==
  /\ UNCHANGED globalZIndex
  /\ Commit("attach", id, "", AttachUpdate(detachables, id), renderer, pending)

\* DetachableContent mounts: the register effect, then the slot effect with
\* the rectangle of the placeholder
PageMount(id, content, options, rect) ==
  LET registered == RegisterUpdate(detachables, id, content, options,
                                   getNextZIndex(globalZIndex))
  IN /\ ~pageOf[id].mounted
     /\ globalZIndex' = IF Has(detachables, id) THEN globalZIndex
                        ELSE getNextZIndex(globalZIndex)
     /\ CommitPage("pageMount", id, content,
                   UpdateSlotUpdate(registered, id, rect), renderer, pending,
                   [pageOf EXCEPT ![id].mounted = TRUE])

\* DetachableContent unmounts: the cleanup of the register effect calls
\* unregister (its isDetached is the one of the first render, when the id was
\* not in the map), then the cleanup of the slot effect calls updateSlot(id, null)
PageTeardown(id) ==
  LET new == UpdateSlotUpdate(UnregisterUpdate(detachables, id), id, Null)
  IN /\ pageOf[id].mounted
     /\ UNCHANGED globalZIndex
     /\ CommitPage("pageTeardown", id, "", new, renderer, pending,
                   [pageOf EXCEPT ![id] = [mounted |-> FALSE,
                                           retained |-> Has(new, id)]])

\* ------------------------------------------------------ renderer actions
\* what the undock callback of a render closes over
UndockClosure(item) ==
  [dockedSide |-> item.dockedSide, dockedY |-> item.dockedY, size |-> item.size]

\* onMouseDown / onResizeStart of the floating window
BringToFront(id) ==
  /\ Has(detachables, id) /\ RendersFloating(detachables[id])
  /\ globalZIndex' = getNextZIndex(globalZIndex)
  /\ Commit("bringToFront", id, "",
            BringToFrontUpdate(detachables, id, getNextZIndex(globalZIndex)),
            renderer, pending)

\* onClick / onTouchEnd of the docked handle
Undock(id) ==
  /\ Has(detachables, id) /\ RendersHandle(detachables[id])
  /\ globalZIndex' = getNextZIndex(globalZIndex)
  /\ Commit("undock", id, UndockClosure(detachables[id]),
            UndockUpdate(detachables, id, detachables[id], viewport,
                         getNextZIndex(globalZIndex)),
            renderer, pending)

\* the handle's other event (the click that follows a touchend) reaches the
\* same undock callback before the handle has left the page: the callback
\* runs again with the values of the render that showed the handle
UndockAgain(id) ==
  /\ lastOp.op = "undock" /\ lastOp.id = id
  /\ Has(detachables, id)
  /\ globalZIndex' = getNextZIndex(globalZIndex)
  /\ Commit("undockAgain", id, lastOp.arg,
            UndockUpdate(detachables, id, lastOp.arg, viewport,
                         getNextZIndex(globalZIndex)),
            renderer, pending)

\* onMaximize of the header
Maximize(id) ==
  /\ Has(detachables, id) /\ RendersFloating(detachables[id])
  /\ UNCHANGED globalZIndex
  /\ Commit("maximize", id, "",
            MaximizeUpdate(detachables, id, detachables[id], viewport),
            renderer, pending)

\* the restore callback of the header
Restore(id) ==
  /\ Has(detachables, id) /\ RendersFloating(detachables[id])
  /\ UNCHANGED globalZIndex
  /\ Commit("restore", id, "",
            RestoreUpdate(detachables, id, detachables[id]),
            renderer, pending)

\* onResizeStop of the floating window
ResizeStop(id, size) ==
  /\ Has(detachables, id) /\ RendersFloating(detachables[id])
  /\ ~renderer[id].dragging /\ ~renderer[id].isMomentumActive
  /\ UNCHANGED globalZIndex
  /\ Commit("resizeStop", id, "",
            ResizeUpdate(detachables, id, detachables[id], size, detachables[id].position),
            renderer, pending)

handleDragStart(id) ==
  /\ Has(detachables, id) /\ RendersFloating(detachables[id])
  /\ ~detachables[id].isMaximized /\ ~renderer[id].isMomentumActive
  /\ ~renderer[id].dragging
  /\ globalZIndex' = getNextZIndex(globalZIndex)
  /\ Commit("dragStart", id, "",
            BringToFrontUpdate(detachables, id, getNextZIndex(globalZIndex)),
            [renderer EXCEPT ![id].animationFrameRef = 0,
                             ![id].isMomentumActive = FALSE,
                             ![id].dragging = TRUE],
            [pending EXCEPT ![id] =
               {t \in @ : ~(renderer[id].animationFrameRef # 0
                            /\ t.h = renderer[id].animationFrameRef)}])

handleDrag(id, pos, dt) ==
  LET r == renderer[id]
      vx == Sample(pos.x - r.lastPositionRef.x, dt)
      vy == Sample(pos.y - r.lastPositionRef.y, dt)
      sampled == /\ r.lastPositionRef # Null
                 /\ dt > 0 /\ dt < 100
                 /\ (Abs(vx) > 10 \/ Abs(vy) > 10)
  IN /\ Has(detachables, id) /\ r.dragging
     /\ UNCHANGED globalZIndex
     /\ Commit("drag", id, "", detachables,
               [renderer EXCEPT ![id].velocityRef = IF sampled THEN [vx |-> vx, vy |-> vy] ELSE @,
                                ![id].lastPositionRef = pos],
               pending)

handleDragStop(id, pos) ==
  LET r == renderer[id]
      item == detachables[id]
      thrown == SpeedSquared(r.velocityRef) > Px(1) * Px(1) /\ ~item.isMaximized
      step == MomentumStep(pos, r.velocityRef, item.size, viewport)
      going == thrown /\ step.outcome = "continue"
      ticks == IF thrown THEN Reschedule(pending[id], r.animationFrameRef, Null, step, Null)
               ELSE pending[id]
  IN /\ Has(detachables, id) /\ r.dragging
     /\ UNCHANGED globalZIndex
     /\ Commit("dragStop", id, [position |-> pos, velocity |-> r.velocityRef],
               IF thrown THEN MomentumUpdate(detachables, id, step)
               ELSE PositionUpdate(detachables, id, pos),
               [renderer EXCEPT ![id].lastPositionRef = Null,
                                ![id].velocityRef = [vx |-> 0, vy |-> 0],
                                ![id].dragging = FALSE,
                                ![id].isMomentumActive = going,
                                ![id].animationFrameRef =
                                   IF going THEN NewHandle(pending[id], @) ELSE @],
               [pending EXCEPT ![id] = ticks])

\* a requestAnimationFrame callback runs
Tick(id, t) ==
  LET live == t.frozen = Null
      size == IF live THEN detachables[id].size ELSE t.frozen
      step == MomentumStep(t.position, t.velocity, size, viewport)
      rest == pending[id] \ {t}
      going == step.outcome = "continue"
  IN /\ t \in pending[id]
     /\ UNCHANGED globalZIndex
     /\ Commit("tick", id, step.outcome,
               MomentumUpdate(detachables, id, step),
               IF ~live THEN renderer
               ELSE [renderer EXCEPT ![id].isMomentumActive = IF going THEN @ ELSE FALSE,
                                     ![id].animationFrameRef =
                                        IF going THEN NewHandle(rest, @) ELSE @],
               [pending EXCEPT ![id] =
                  Reschedule(@, renderer[id].animationFrameRef, t, step, t.frozen)])

\* ------------------------------------------------------- useGlideFrame
\* getInitialState(): the state built from the entry found in localStorage
\* (JSON.parse of what the save effect wrote, spread into the state) or from
\* the defaults for the viewport
getInitialState(saved, vp, z) ==
  LET isMobile == vp.width < Px(MOBILE_WIDTH)
      size == IF isMobile THEN Size(320, 400) ELSE Size(800, 600)
  IN IF saved # Null
     THEN [ isMinimized |-> saved.isMinimized,
            isMaximized |-> saved.isMaximized,
            isVisible |-> TRUE,
            position |-> saved.position,
            size |-> saved.size,
            zIndex |-> z,
            previousPosition |-> Null,
            previousSize |-> Null ]
     ELSE [ isMinimized |-> FALSE,
            isMaximized |-> FALSE,
            isVisible |-> TRUE,
            position |-> [x |-> vp.width - size.width - Px(20), y |-> Px(20)],
            size |-> size,
            zIndex |-> z,
            previousPosition |-> Null,
            previousSize |-> Null ]

\* getInitialState: the entry it builds the state from; none when persist is
\* off, when getItem throws or when JSON.parse throws (both are caught)
LoadEntry(p, fault, entry) ==
  IF ~p \/ "get" \in fault \/ entry = Malformed \/ entry = Null THEN Null ELSE entry

\* the object the save effect serialises into localStorage
ToSave(state) ==
  [ position |-> state.position,
    size |-> state.size,
    isMinimized |-> state.isMinimized,
    isMaximized |-> state.isMaximized ]

\* variant: a save effect that writes whether or not persist is on
SaveEntryAlways(p, fault, entry, state) ==
  IF "set" \in fault THEN entry ELSE ToSave(state)

\* the entry after the save effect: setItem inside try / catch
SaveEntry(p, fault, entry, state) ==
  IF ~p \/ "set" \in fault THEN entry ELSE ToSave(state)

\* the entry after the unmount cleanup: removeItem, outside any try / catch
RemoveEntry(p, fault, entry) ==
  IF ~p \/ "remove" \in fault THEN entry ELSE Null

\* the action behind a state change from `old` to `state`, its store calls,
\* and whether one of them threw outside a try / catch
StoreCalls(op, p, fault, old, state) ==
  [ op |-> op,
    calls |-> IF ~p THEN {}
              ELSE IF state = Null THEN {"remove"}
              ELSE IF old = Null THEN {"get", "set"}
              ELSE {"set"},
    escaped |-> p /\ state = Null /\ "remove" \in fault ]

\* the history of the modes: taken when minimize or maximize leaves the normal
\* state, counting the two while only they act (up to 2), closed by the restore
\* that follows, dropped by the action after it and by unmount
ModeTrackStep(track, op, old, state) ==
  IF state = Null \/ old = Null THEN Null
  ELSE IF op \in {"minimize", "maximize"}
  THEN IF ~old.isMinimized /\ ~old.isMaximized
       THEN [position |-> old.position, size |-> old.size, pure |-> TRUE,
             modes |-> 1, restored |-> FALSE]
       ELSE IF track = Null \/ track.restored THEN Null
       ELSE [track EXCEPT !.modes = Min(@ + 1, 2)]
  ELSE IF track = Null \/ track.restored THEN Null
  ELSE IF op = "restore" THEN [track EXCEPT !.restored = TRUE]
  ELSE [track EXCEPT !.pure = FALSE]

\* setState with a new state object and the effects that follow it: the save
\* effect writes the entry; the unmount cleanup removes it; `frame` is the
\* animation frame the window has requested
HookCommitWith(op, state, counter, frame) ==
  /\ hook' = state
  /\ hookFrame' = frame
  /\ modeTrack' = IF observed = "store" THEN ModeTrackStep(modeTrack, op, hook, state)
                  ELSE modeTrack
  /\ hookZIndex' = counter
  /\ stored' = IF state = Null THEN RemoveEntry(persist, storeFault, stored)
               ELSE SaveEntry(persist, storeFault, stored, state)
  /\ lastStore' = IF observed = "store" THEN StoreCalls(op, persist, storeFault, hook, state)
                  ELSE lastStore
  /\ UNCHANGED <<detachables, globalZIndex, viewport, renderer, pending, observed,
                 lastOp, regTrack, maxTrack, fronts, lastFront, lastIssued,
                 persist, storeFault, pageOf, frames>>

\* a state change outside the momentum animation: a requested frame stays
\* requested; the frame of an unmounted window runs without effect (setState
\* of an unmounted component) and is dropped here
HookCommit(op, state, counter) ==
  HookCommitWith(op, state, counter, IF state = Null THEN Null ELSE hookFrame)

\* first render (useState initializer) and the mount effect: getInitialState
\* runs twice and the state keeps the value of the second run
HookMount ==
  /\ hook = Null
  /\ HookCommit("mount",
                getInitialState(LoadEntry(persist, storeFault, stored), viewport,
                                hookZIndex + 2),
                hookZIndex + 2)

HookUnmount ==
  /\ hook # Null
  /\ HookCommit("unmount", Null, hookZIndex)

HookBringToFront ==
  /\ hook # Null
  /\ HookCommit("bringToFront", [hook EXCEPT !.zIndex = hookZIndex + 1], hookZIndex + 1)

HookMinimize ==
  /\ hook # Null
  /\ IF hook.isMinimized THEN UNCHANGED vars
     ELSE HookCommit("minimize",
            [hook EXCEPT !.isMinimized = TRUE, !.isMaximized = FALSE,
                         !.previousPosition = IF @ # Null THEN @ ELSE hook.position,
                         !.previousSize = IF @ # Null THEN @ ELSE hook.size,
                         !.position = [x |-> viewport.width - Px(300) - Px(20),
                                       y |-> viewport.height - Px(60) - Px(20)],
                         !.size = Size(300, 60),
                         !.zIndex = hookZIndex + 1],
            hookZIndex + 1)

\* variant: a maximize that always takes the current geometry as the one to
\* return to
HookMaximizeOverwrites ==
  /\ hook # Null
  /\ IF hook.isMaximized THEN UNCHANGED vars
     ELSE HookCommit("maximize",
            [hook EXCEPT !.isMaximized = TRUE, !.isMinimized = FALSE,
                         !.previousPosition = hook.position,
                         !.previousSize = hook.size,
                         !.position = Pos(MAXIMIZE_PADDING, MAXIMIZE_PADDING),
                         !.size = [width |-> viewport.width - Px(MAXIMIZE_PADDING) * 2,
                                   height |-> viewport.height - Px(MAXIMIZE_PADDING) * 2],
                         !.zIndex = hookZIndex + 1],
            hookZIndex + 1)

HookMaximize ==
  /\ hook # Null
  /\ IF hook.isMaximized THEN UNCHANGED vars
     ELSE HookCommit("maximize",
            [hook EXCEPT !.isMaximized = TRUE, !.isMinimized = FALSE,
                         !.previousPosition = IF @ # Null THEN @ ELSE hook.position,
                         !.previousSize = IF @ # Null THEN @ ELSE hook.size,
                         !.position = Pos(MAXIMIZE_PADDING, MAXIMIZE_PADDING),
                         !.size = [width |-> viewport.width - Px(MAXIMIZE_PADDING) * 2,
                                   height |-> viewport.height - Px(MAXIMIZE_PADDING) * 2],
                         !.zIndex = hookZIndex + 1],
            hookZIndex + 1)

HookRestore ==
  /\ hook # Null
  /\ HookCommit("restore",
       [hook EXCEPT !.isMinimized = FALSE, !.isMaximized = FALSE,
                    !.position = IF hook.previousPosition # Null
                                 THEN hook.previousPosition ELSE @,
                    !.size = IF hook.previousSize # Null THEN hook.previousSize ELSE @,
                    !.previousPosition = Null,
                    !.previousSize = Null,
                    !.zIndex = hookZIndex + 1],
       hookZIndex + 1)

HookClose ==
  /\ hook # Null
  /\ HookCommit("close", [hook EXCEPT !.isVisible = FALSE], hookZIndex)

\* onDragStop of the GlideFrame window: updatePosition; dragging is disabled
\* while the window is maximized
HookDragStop(pos) ==
  /\ hook # Null /\ ~hook.isMaximized
  /\ HookCommit("dragStop", [hook EXCEPT !.position = pos], hookZIndex)

\* onResizeStop of the GlideFrame window: updateSize and updatePosition;
\* resizing is enabled only while neither minimized nor maximized
HookResizeStop(size, pos) ==
  /\ hook # Null /\ ~hook.isMinimized /\ ~hook.isMaximized
  /\ HookCommit("resizeStop", [hook EXCEPT !.size = size, !.position = pos], hookZIndex)

\* one run of animateMomentumRef.current(currentPos, velocity) of the
\* GlideFrame window: the right bound is tested only when the left was not hit
HookMomentumStep(currentPos, velocity, size, vp) ==
  LET rawX == currentPos.x + velocity.vx
      rawY == currentPos.y + velocity.vy
      hitLeftEdge == rawX <= 0
      hitRightEdge == ~hitLeftEdge /\ rawX >= vp.width - size.width
      newX == IF hitLeftEdge THEN 0
              ELSE IF hitRightEdge THEN vp.width - size.width ELSE rawX
      newY == Max(0, Min(rawY, vp.height - size.height))
      fast == SpeedSquared(velocity) >= DOCK_MIN_VELOCITY * DOCK_MIN_VELOCITY
      slowed == [vx |-> Friction(velocity.vx), vy |-> Friction(velocity.vy)]
  IN [ outcome |-> IF hitLeftEdge /\ fast THEN "dockLeft"
                   ELSE IF hitRightEdge /\ fast THEN "dockRight"
                   ELSE IF hitLeftEdge \/ hitRightEdge THEN "edge"
                   ELSE IF Abs(slowed.vx) > MOMENTUM_MIN_VELOCITY
                           \/ Abs(slowed.vy) > MOMENTUM_MIN_VELOCITY THEN "continue"
                   ELSE "rest",
       position |-> [x |-> newX, y |-> newY],
       velocity |-> slowed ]

\* the frame requested by a run that goes on
HookNextFrame(step) ==
  IF step.outcome = "continue"
  THEN [position |-> step.position, velocity |-> step.velocity]
  ELSE Null

\* handleDragStart of the GlideFrame window: cancels the requested frame and
\* raises the window
HookDragStart ==
  /\ hook # Null /\ ~hook.isMaximized
  /\ HookCommitWith("dragStart", [hook EXCEPT !.zIndex = hookZIndex + 1],
                    hookZIndex + 1, Null)

\* handleDragStop of the GlideFrame window after moves that sampled the
\* velocity `vel`, faster than 1: the first run of the animation, which calls
\* updatePosition. The drag-start before it cancelled any earlier frame. The
\* throws here are slower than DOCK_MIN_VELOCITY, so that no run docks.
HookThrow(pos, vel) ==
  LET step == HookMomentumStep(pos, vel, hook.size, viewport)
  IN /\ hook # Null /\ ~hook.isMaximized /\ hookFrame = Null
     /\ SpeedSquared(vel) > Px(1) * Px(1)
     /\ step.outcome \in {"continue", "rest", "edge"}
     /\ HookCommitWith("throw", [hook EXCEPT !.position = step.position],
                       hookZIndex, HookNextFrame(step))

\* the requested frame runs: updatePosition, then friction and the next frame
HookTick ==
  LET step == HookMomentumStep(hookFrame.position, hookFrame.velocity, hook.size,
                               viewport)
  IN /\ hook # Null /\ hookFrame # Null
     /\ step.outcome \in {"continue", "rest", "edge"}
     /\ HookCommitWith("tick", [hook EXCEPT !.position = step.position],
                       hookZIndex, HookNextFrame(step))

\* ------------------------------------------ openFrame / closeFrame
\* whether the list holds an entry with the id
FrameExists(prev, id) == \E k \in 1..Len(prev) : prev[k].id = id

\* variant: an openFrame that appends whether or not the id is present
OpenFrameAppends(prev, config) == Append(prev, config)

\* the updater of openFrame: map over the list when the id is found, else append
OpenFrameUpdate(prev, config) ==
  IF FrameExists(prev, config.id)
  THEN [k \in 1..Len(prev) |-> IF prev[k].id = config.id THEN config ELSE prev[k]]
  ELSE Append(prev, config)

\* the updater of closeFrame: filter
RECURSIVE CloseFrameUpdate(_, _)
CloseFrameUpdate(prev, id) ==
  IF prev = <<>> THEN <<>>
  ELSE IF Head(prev).id = id THEN CloseFrameUpdate(Tail(prev), id)
  ELSE <<Head(prev)>> \o CloseFrameUpdate(Tail(prev), id)

\* setFrames and the history of the call
FramesCommit(op, id, arg, new) ==
  /\ frames' = new
  /\ lastOp' = [op |-> op, id |-> id, arg |-> arg]
  /\ UNCHANGED <<detachables, globalZIndex, viewport, renderer, pending, observed,
                 regTrack, maxTrack, fronts, lastFront, lastIssued, hookZIndex, hook,
                 stored, persist, storeFault, lastStore, hookFrame, pageOf,
                 modeTrack>>

openFrame(config) ==
  FramesCommit("openFrame", config.id, config, OpenFrameUpdate(frames, config))

closeFrame(id) ==
  FramesCommit("closeFrame", id, "", CloseFrameUpdate(frames, id))

closeAllFrames ==
  FramesCommit("closeAllFrames", "", "", <<>>)

\* the page is loaded again: the modules are evaluated afresh, no cleanup
\* runs, and localStorage keeps what it held
HookReload ==
  /\ hook' = Null
  /\ hookZIndex' = BASE_Z_INDEX
  /\ detachables' = <<>>
  /\ globalZIndex' = INITIAL_Z_INDEX
  /\ renderer' = [i \in Ids |-> FreshRenderer]
  /\ pending' = [i \in Ids |-> {}]
  /\ lastStore' = NoStoreCalls
  /\ hookFrame' = Null
  /\ pageOf' = [i \in Ids |-> NoPage]
  /\ frames' = <<>>
  /\ modeTrack' = Null
  /\ UNCHANGED <<stored, persist, storeFault, viewport, observed, lastOp, regTrack,
                 maxTrack, fronts, lastFront, lastIssued>>

Next ==
  \/ \E id \in SoloIds, c \in Contents, o \in RegisterOptions :
       Register(id, c, o) /\ WithinIssue
  \/ \E id \in SoloIds : Unregister(id)
  \/ \E id \in SoloIds, rect \in SlotRects \cup {Null} : UpdateSlot(id, rect)
  \/ \E id \in SoloIds : Detach(id) /\ WithinIssue
  \/ \E id \in SoloIds : Attach(id)
  \/ \E id \in SoloIds : BringToFront(id) /\ WithinIssue
  \/ \E id \in SoloIds : Undock(id) /\ WithinIssue
  \/ \E id \in SoloIds : Maximize(id)
  \/ \E id \in SoloIds : Restore(id)
  \/ \E id \in SoloIds, size \in ResizeSizes : ResizeStop(id, size)
  \/ \E id \in SoloIds : handleDragStart(id) /\ WithinIssue
  \/ \E id \in SoloIds, pos \in DragPositions, dt \in DragIntervals : handleDrag(id, pos, dt)
  \/ \E id \in SoloIds, pos \in DragPositions : handleDragStop(id, pos)
  \/ \E id \in SoloIds : \E t \in pending[id] : Tick(id, t)

Spec == Init /\ [][Next]_vars

\* Two frames, for the z-order: one content, one slot rectangle, one throw
NextZ ==
  \/ \E id \in Ids : Register(id, "c1", CHOOSE o \in RegisterOptions : TRUE) /\ WithinIssueZ
  \/ \E id \in Ids, rect \in SlotRects : UpdateSlot(id, rect)
  \/ \E id \in Ids : Detach(id) /\ WithinIssueZ
  \/ \E id \in Ids : Attach(id)
  \/ \E id \in Ids : BringToFront(id) /\ WithinIssueZ
  \/ \E id \in Ids : Undock(id) /\ WithinIssueZ
  \/ \E id \in Ids : handleDragStart(id) /\ WithinIssueZ
  \/ \E id \in Ids, pos \in DragPositions : handleDrag(id, pos, 16)
  \/ \E id \in Ids : handleDragStop(id, Pos(0, 100))
  \/ \E id \in Ids : \E t \in pending[id] : Tick(id, t)

SpecZ == InitZ /\ [][NextZ]_vars

\* One frame detached from several slots in several viewports
NextD ==
  \/ \E c \in Contents, o \in DetachOptions : Register("a", c, o) /\ WithinIssue
  \/ Unregister("a")
  \/ \E rect \in DetachSlotRects \cup {Null} : UpdateSlot("a", rect)
  \/ Detach("a") /\ WithinIssue
  \/ Attach("a")
  \/ Maximize("a")

SpecD == InitD /\ [][NextD]_vars

\* One frame thrown slowly at the left edge
NextM ==
  \/ Register("a", "c1", CHOOSE o \in RegisterOptions : TRUE) /\ WithinIssueM
  \/ \E rect \in SlotRects : UpdateSlot("a", rect)
  \/ Detach("a") /\ WithinIssueM
  \/ Attach("a")
  \/ Maximize("a")
  \/ handleDragStart("a") /\ WithinIssueM
  \/ \E pos \in SlowDragPositions : handleDrag("a", pos, 16)
  \/ \E pos \in EdgeReleases : handleDragStop("a", pos)
  \/ \E t \in pending["a"] : Tick("a", t)

SpecM == Init /\ [][NextM]_vars

\* One frame thrown at 2 px per tick along either axis, from the left edge and
\* from near it, with the browser delivering every animation frame it was
\* asked for
NextL ==
  \/ Register("a", "c1", CHOOSE o \in RegisterOptions : TRUE) /\ WithinIssueL
  \/ \E rect \in SlotRects : UpdateSlot("a", rect)
  \/ Detach("a") /\ WithinIssueL
  \/ Attach("a")
  \/ handleDragStart("a") /\ WithinIssueL
  \/ \E pos \in LiveDragPositions : handleDrag("a", pos, 16)
  \/ \E pos \in LiveReleases : handleDragStop("a", pos)
  \/ \E t \in pending["a"] : Tick("a", t)

TickDelivered == \E t \in pending["a"] : Tick("a", t)

SpecL == Init /\ [][NextL]_vars /\ WF_vars(TickDelivered)

\* One frame thrown, attached, removed and registered again
NextO ==
  \/ Register("a", "c1", CHOOSE o \in RegisterOptions : TRUE) /\ WithinIssueO
  \/ Unregister("a")
  \/ \E rect \in SlotRects : UpdateSlot("a", rect)
  \/ Detach("a") /\ WithinIssueO
  \/ Attach("a")
  \/ Maximize("a")
  \/ handleDragStart("a") /\ WithinIssueO
  \/ \E pos \in DragPositions : handleDrag("a", pos, 16)
  \/ \E pos \in DragPositions : handleDragStop("a", pos)
  \/ \E t \in pending["a"] : Tick("a", t)

SpecO == InitC /\ [][NextO]_vars

\* One frame thrown slowly, attached, removed and registered again in a
\* viewport that holds the default size
NextV ==
  \/ Register("a", "c1", CHOOSE o \in RegisterOptions : TRUE) /\ WithinIssueV
  \/ Unregister("a")
  \/ \E rect \in SlotRects : UpdateSlot("a", rect)
  \/ Detach("a") /\ WithinIssueV
  \/ Attach("a")
  \/ handleDragStart("a") /\ WithinIssueV
  \/ \E pos \in LiveDragPositions : handleDrag("a", pos, 16)
  \/ \E pos \in LiveReleases : handleDragStop("a", pos)
  \/ \E t \in pending["a"] : Tick("a", t)

SpecV == InitV /\ [][NextV]_vars

\* One frame thrown into the dock and taken out by its handle
NextU ==
  \/ Register("a", "c1", CHOOSE o \in RegisterOptions : TRUE) /\ WithinIssueU
  \/ \E rect \in SlotRects : UpdateSlot("a", rect)
  \/ Detach("a") /\ WithinIssueU
  \/ Attach("a")
  \/ BringToFront("a") /\ WithinIssueU
  \/ handleDragStart("a") /\ WithinIssueU
  \/ \E pos \in DragPositions : handleDrag("a", pos, 16)
  \/ \E pos \in DragPositions : handleDragStop("a", pos)
  \/ \E t \in pending["a"] : Tick("a", t)
  \/ Undock("a") /\ WithinIssueU
  \/ UndockAgain("a") /\ WithinIssueU

SpecU == Init /\ [][NextU]_vars

\* The two counters: one detachable frame and one useGlideFrame window
NextC ==
  \/ Register("a", "c1", CHOOSE o \in RegisterOptions : TRUE) /\ WithinIssueC
  \/ Unregister("a")
  \/ \E rect \in SlotRects : UpdateSlot("a", rect)
  \/ Detach("a") /\ WithinIssueC
  \/ Attach("a")
  \/ BringToFront("a") /\ WithinIssueC
  \/ Undock("a") /\ WithinIssueC
  \/ handleDragStart("a") /\ WithinIssueC
  \/ \E pos \in DragPositions : handleDrag("a", pos, 16)
  \/ handleDragStop("a", Pos(0, 100))
  \/ \E t \in pending["a"] : Tick("a", t)
  \/ HookMount /\ WithinHookIssue
  \/ HookUnmount
  \/ HookBringToFront /\ WithinHookIssue
  \/ HookMinimize /\ WithinHookIssue
  \/ HookMaximize /\ WithinHookIssue
  \/ HookRestore /\ WithinHookIssue
  \/ HookClose

SpecC == InitC /\ [][NextC]_vars

\* One GlideFrame window and its stored layout, over page loads
NextP ==
  \/ HookMount /\ WithinHookIssueP
  \/ HookUnmount
  \/ HookBringToFront /\ WithinHookIssueP
  \/ HookMinimize /\ WithinHookIssueP
  \/ HookMaximize /\ WithinHookIssueP
  \/ HookRestore /\ WithinHookIssueP
  \/ HookClose
  \/ \E pos \in HookPositions : HookDragStop(pos)
  \/ \E size \in HookSizes, pos \in HookPositions : HookResizeStop(size, pos)
  \/ HookReload

SpecP == InitP /\ [][NextP]_vars

\* One GlideFrame window over a store that may fail, with persist on or off
NextS ==
  \/ HookMount /\ WithinHookIssueS
  \/ HookUnmount
  \/ HookBringToFront /\ WithinHookIssueS
  \/ HookMinimize /\ WithinHookIssueS
  \/ HookMaximize /\ WithinHookIssueS
  \/ HookRestore /\ WithinHookIssueS
  \/ HookClose
  \/ \E pos \in HookPositions : HookDragStop(pos)
  \/ \E size \in HookSizes, pos \in HookPositions : HookResizeStop(size, pos)

SpecS == InitS /\ [][NextS]_vars

\* One page that declares a frame, comes and goes while the frame floats, is
\* docked by a throw or is attached
NextG ==
  \/ PageMount("a", "c1", CHOOSE o \in RegisterOptions : TRUE,
               CHOOSE rect \in SlotRects : TRUE) /\ WithinIssueG
  \/ PageTeardown("a")
  \/ Detach("a") /\ WithinIssueG
  \/ Attach("a")
  \/ handleDragStart("a") /\ WithinIssueG
  \/ \E pos \in DragPositions : handleDrag("a", pos, 16)
  \/ \E pos \in DragPositions : handleDragStop("a", pos)
  \/ \E t \in pending["a"] : Tick("a", t)
  \/ Undock("a") /\ WithinIssueG

SpecG == Init /\ [][NextG]_vars

\* The list of open windows of the provider
NextF ==
  \/ \E config \in FrameConfigs : openFrame(config)
  \/ \E id \in FrameIds : closeFrame(id)
  \/ closeAllFrames

SpecF == Init /\ [][NextF]_vars

\* One GlideFrame window through its modes, with the history of the modes
NextR ==
  \/ HookMount /\ WithinHookIssueR
  \/ HookUnmount
  \/ HookBringToFront /\ WithinHookIssueR
  \/ HookMinimize /\ WithinHookIssueR
  \/ HookMaximize /\ WithinHookIssueR
  \/ HookRestore /\ WithinHookIssueR
  \/ \E pos \in HookPositions : HookDragStop(pos)
  \/ \E size \in HookSizes, pos \in HookPositions : HookResizeStop(size, pos)

SpecR == InitR /\ [][NextR]_vars

\* One GlideFrame window thrown slowly, with persist on or off
NextT ==
  \/ HookMount /\ WithinHookIssueT
  \/ HookUnmount
  \/ HookMaximize /\ WithinHookIssueT
  \/ HookRestore /\ WithinHookIssueT
  \/ HookDragStart /\ WithinHookIssueT
  \/ \E pos \in HookPositions, vel \in HookVelocities : HookThrow(pos, vel)
  \/ HookTick

SpecT == InitT /\ [][NextT]_vars

\* The frame kinds side by side over a long session of the window
NextK ==
  \/ Register("a", "c1", CHOOSE o \in RegisterOptions : TRUE) /\ WithinIssueC
  \/ HookMount /\ WithinHookIssueK
  \/ HookBringToFront /\ WithinHookIssueK
  \/ HookUnmount

SpecK == InitC /\ [][NextK]_vars

\* ================================================================ claims
Registered == DOMAIN detachables

\* C1: while an id stays registered, the content stored for it never changes:
\* neither a later register(id, otherContent) nor any other operation (slot
\* update, detach, attach, dock, undock, maximize, restore, bringToFront, drag,
\* momentum tick) writes the content field of an existing record.
C1_ContentNeverReassigned ==
  [][\A id \in Ids :
       (Has(detachables, id) /\ Has(detachables', id))
         => detachables'[id].content = detachables[id].content]_vars

\* a register call with another content has acted on a known id
C1_ReRegisterWitness ==
  /\ lastOp.op = "register"
  /\ Has(detachables, lastOp.id)
  /\ detachables[lastOp.id].content # lastOp.arg

\* C2: a detach with a reported slot rectangle leaves isDetached(X) true, and
\* an unregister(X) issued while X is detached or docked keeps the record, its
\* isDetached / isDocked flags and its content exactly as they were.
C2_DetachedSurvivesUnregister ==
  [][\A id \in Ids :
       /\ ( /\ lastOp'.op = "detach" /\ lastOp'.id = id
            /\ Has(detachables, id) /\ detachables[id].slotRect # Null )
          => isDetached(id)'
       /\ ( /\ lastOp'.op = "unregister" /\ lastOp'.id = id
            /\ Has(detachables, id)
            /\ (detachables[id].isDetached \/ detachables[id].isDocked) )
          => /\ Has(detachables', id)
             /\ isDetached(id)' = isDetached(id)
             /\ isDocked(id)' = isDocked(id)
             /\ detachables'[id].content = detachables[id].content]_vars

\* unregister has just been called on a floating frame, which is still there
C2_UnregisterFloatingWitness ==
  /\ lastOp.op = "unregister"
  /\ Has(detachables, lastOp.id)
  /\ detachables[lastOp.id].isDetached
  /\ ~detachables[lastOp.id].isDocked

\* C3 (as stated): after register(id, c1), unregister(id), register(id, c2)
\* on a frame that never became Floating or Docked, the stored content is c1,
\* the content of the first register.
C3_SecondRegisterKeepsFirst ==
  \A id \in Ids :
    regTrack[id].stage = "rur"
      => Has(detachables, id) /\ detachables[id].content = regTrack[id].first

\* C3 (amended): after register(id, c1), unregister(id), register(id, c2) on a
\* frame that never became Floating or Docked, the unregister has removed the
\* record and the stored content is c2, the content of the second register.
C3_SecondRegisterStoresSecond ==
  \A id \in Ids :
    regTrack[id].stage = "rur"
      => Has(detachables, id) /\ detachables[id].content = regTrack[id].second

\* the three calls have happened with two different contents
C3_ReRegisterAfterUnregisterWitness ==
  \E id \in Ids :
    /\ regTrack[id].stage = "rur"
    /\ regTrack[id].first # regTrack[id].second

\* C4 (as stated): for every frame, detach then maximize then restore leaves
\* position and size equal to their values right after the detach, with
\* isMaximized false.
C4_MaximizeRestoreRoundTrip ==
  \A id \in Ids :
    maxTrack[id].stage = "dmr"
      => /\ Has(detachables, id)
         /\ detachables[id].position = maxTrack[id].position
         /\ detachables[id].size = maxTrack[id].size
         /\ ~detachables[id].isMaximized

\* C4 (restricted): the same round trip, for a frame that was not Maximized
\* when detach was called.
C4_RoundTripFromUnmaximized ==
  \A id \in Ids :
    (maxTrack[id].stage = "dmr" /\ ~maxTrack[id].fromMaximized)
      => /\ Has(detachables, id)
         /\ detachables[id].position = maxTrack[id].position
         /\ detachables[id].size = maxTrack[id].size
         /\ ~detachables[id].isMaximized

\* detach, maximize and restore have run in a row on a frame that was not
\* Maximized before
C4_RoundTripWitness ==
  \E id \in Ids : maxTrack[id].stage = "dmr" /\ ~maxTrack[id].fromMaximized

\* C5 (as stated): the pre-maximize snapshot of a frame is non-null only while
\* the frame is Maximized.
C5_SnapshotOnlyWhileMaximized ==
  \A id \in Registered :
    detachables[id].preMaximizeState # Null => detachables[id].isMaximized

\* C6 (as stated): every frame is in exactly one mode: never docked and
\* maximized at once, and a frame that is not detached is neither docked nor
\* maximized.
C6_ExactlyOneMode ==
  \A id \in Registered :
    /\ ~(detachables[id].isDocked /\ detachables[id].isMaximized)
    /\ ~detachables[id].isDetached
         => ~detachables[id].isDocked /\ ~detachables[id].isMaximized

Floating == {id \in Registered : RendersFloating(detachables[id])}

\* C7: after any run of consecutive bringToFront calls over the floating
\* frames, the z-index values of the floating frames are pairwise distinct and
\* the frame of the last call holds the maximum; after bringToFront(a),
\* bringToFront(b), bringToFront(a) the z-index of a exceeds that of b.
C7_BringToFrontTotalOrder ==
  fronts # <<>> =>
    LET last == fronts[Len(fronts)]
    IN /\ last \in Floating
       /\ \A i, j \in Floating : i # j => detachables[i].zIndex # detachables[j].zIndex
       /\ \A i \in Floating \ {last} : detachables[last].zIndex > detachables[i].zIndex
       /\ fronts = <<"a", "b", "a">> => detachables["a"].zIndex > detachables["b"].zIndex

\* bringToFront(a), bringToFront(b), bringToFront(a) have just run on two
\* floating frames
C7_ThreeCallsWitness ==
  fronts = <<"a", "b", "a">> /\ Floating = {"a", "b"}

\* C8 (as stated): whatever else is interleaved, the floating frame on which
\* bringToFront was called last has a z-index strictly above every other
\* floating frame.
C8_LastBroughtToFrontIsTop ==
  (lastFront # "" /\ lastFront \in Floating)
    => \A i \in Floating \ {lastFront} :
         detachables[lastFront].zIndex > detachables[i].zIndex

\* C8 (amended): the frame that took a value from the counter last (through
\* bringToFront, a drag start, detach, undock or its first registration) has a
\* z-index strictly above every other registered frame.
C8_LastIssuedIsTop ==
  (lastIssued # "" /\ lastIssued \in Registered)
    => \A i \in Registered \ {lastIssued} :
         detachables[lastIssued].zIndex > detachables[i].zIndex

\* a frame was detached after bringToFront was last called on another
\* floating frame
C8_DetachAfterFrontWitness ==
  /\ lastFront # "" /\ lastIssued # "" /\ lastIssued # lastFront
  /\ {lastFront, lastIssued} \subseteq Floating

\* C9: neither z-index counter ever goes down, every z-index a frame holds
\* was issued by its counter (it is at most the counter), and a z-index newly
\* given to a frame is the incremented counter, strictly above the counter
\* before the step and so above every value issued before.
C9_CounterStrictlyIncreasing ==
  [][/\ globalZIndex' >= globalZIndex
     /\ hookZIndex' >= hookZIndex
     /\ \A id \in Registered : detachables[id].zIndex <= globalZIndex
     /\ hook # Null => hook.zIndex <= hookZIndex
     /\ \A id \in Ids :
          ( /\ Has(detachables', id)
            /\ (~Has(detachables, id) \/ detachables'[id].zIndex # detachables[id].zIndex) )
          => /\ detachables'[id].zIndex > globalZIndex
             /\ detachables'[id].zIndex = globalZIndex'
     /\ (hook' # Null /\ (hook = Null \/ hook'.zIndex # hook.zIndex))
          => /\ hook'.zIndex > hookZIndex
             /\ hook'.zIndex = hookZIndex']_vars

\* both counters have issued several values to frames that hold them
C9_BothCountersIssuedWitness ==
  /\ "a" \in Floating
  /\ detachables["a"].zIndex >= INITIAL_Z_INDEX + 3
  /\ hook # Null
  /\ hook.zIndex >= BASE_Z_INDEX + 3

\* C10 (as stated): a useGlideFrame window and a detachable frame of the
\* provider never hold the same z-index.
C10_KindsNeverShareZIndex ==
  hook # Null => \A id \in Registered : detachables[id].zIndex # hook.zIndex

\* a frame in plain Floating mode: detached, not docked, not maximized
PlainFloating(item) == item.isDetached /\ ~item.isDocked /\ ~item.isMaximized

\* C11 (as stated): once a frame has left Floating through attach, dock or
\* maximize, no momentum tick mutates it: a tick that runs while the frame is
\* Inline, Docked or Maximized leaves its record unchanged.
C11_NoTickOutsideFloating ==
  [][\A id \in Ids :
       ( /\ lastOp'.op = "tick" /\ lastOp'.id = id
         /\ Has(detachables, id) /\ ~PlainFloating(detachables[id]) )
       => detachables'[id] = detachables[id]]_vars

\* C12 (as stated): at most one momentum animation is live per frame: there
\* are never two pending tick callbacks for the same frame id.
C12_AtMostOnePendingTick ==
  \A id \in Ids : Cardinality(pending[id]) <= 1

\* the release of the last step, when that step was a drag stop
Released == lastOp.op = "dragStop" /\ Has(detachables, lastOp.id)

C13_BelowThresholdReached ==
  /\ Released /\ lastOp.arg.position.x = 0
  /\ lastOp.arg.velocity.vx < 0
  /\ SpeedSquared(lastOp.arg.velocity) = (DOCK_MIN_VELOCITY - 1) * (DOCK_MIN_VELOCITY - 1)
  /\ PlainFloating(detachables[lastOp.id])

\* the step is detach(id) on an Inline frame with a reported rectangle
DetachOfInline(id) ==
  /\ lastOp'.op = "detach" /\ lastOp'.id = id
  /\ Has(detachables, id)
  /\ RendersInline(detachables[id])
  /\ detachables[id].slotRect # Null

\* size of the floating window the claim prescribes for rectangle (w, h),
\* header height hh and viewport (vw, vh)
ClaimedDetachSize(w, h, hh, vw, vh) ==
  [ width |-> IF vw >= Px(768) THEN Min(Max(w, Px(400)), vw - Px(40))
              ELSE Min(w, vw - Px(40)),
    height |-> Min(h + hh, vh - Px(100)) ]

\* C14 (as stated): detach on an Inline frame with a reported rectangle sets
\* the size by the clamping rule, the position to (20, 80) in every viewport,
\* and makes the frame Floating.
C14_DetachGeometry ==
  [][\A id \in Ids :
       DetachOfInline(id) =>
         LET old == detachables[id]
             new == detachables'[id]
         IN /\ new.size = ClaimedDetachSize(old.slotRect.width, old.slotRect.height,
                                            HeaderHeightOf(old), viewport.width, viewport.height)
            /\ new.position = Pos(20, 80)
            /\ PlainFloating(new)]_vars

\* C14 (amended): the same, with the position (20, 80) in viewports at least
\* 768 wide and (20, 60) in narrower ones; rectangle 300x200 with the default
\* header height 44 in viewport 1280x800 gives 400x244 at (20, 80).
C14_DetachGeometryMobileInset ==
  [][\A id \in Ids :
       DetachOfInline(id) =>
         LET old == detachables[id]
             new == detachables'[id]
         IN /\ new.size = ClaimedDetachSize(old.slotRect.width, old.slotRect.height,
                                            HeaderHeightOf(old), viewport.width, viewport.height)
            /\ new.position = IF viewport.width < Px(768) THEN Pos(20, 60) ELSE Pos(20, 80)
            /\ PlainFloating(new)
            /\ ( /\ viewport = Size(1280, 800) /\ old.headerHeight = 0
                 /\ old.slotRect.width = Px(300) /\ old.slotRect.height = Px(200) )
               => new.size = Size(400, 244) /\ new.position = Pos(20, 80)]_vars

\* the example of the claim: a 300x200 slot detached in a 1280x800 viewport
C14_ExampleWitness ==
  /\ lastOp.op = "detach" /\ Has(detachables, lastOp.id)
  /\ viewport = Size(1280, 800)
  /\ detachables[lastOp.id].slotRect = Rect(50, 50, 300, 200)
  /\ detachables[lastOp.id].size = Size(400, 244)
  /\ detachables[lastOp.id].position = Pos(20, 80)

\* C15 (as stated): attach on a registered frame that is Floating, Docked or
\* Maximized clears isDetached, isDocked and isMaximized, sets the dock side
\* to null and the maximize snapshot to null; attach on an unknown id changes
\* nothing.
C15_AttachReturnsToInline ==
  [][\A id \in Ids :
       (lastOp'.op = "attach" /\ lastOp'.id = id) =>
         IF Has(detachables, id)
         THEN (detachables[id].isDetached \/ detachables[id].isDocked)
                => /\ Has(detachables', id)
                   /\ ~detachables'[id].isDetached
                   /\ ~detachables'[id].isDocked
                   /\ ~detachables'[id].isMaximized
                   /\ detachables'[id].dockedSide = "null"
                   /\ detachables'[id].preMaximizeState = Null
         ELSE detachables' = detachables]_vars

\* C15 (restricted): the same without the snapshot: attach clears the three
\* mode flags and the dock side, and changes nothing for an unknown id.
C15_AttachClearsModeFlags ==
  [][\A id \in Ids :
       (lastOp'.op = "attach" /\ lastOp'.id = id) =>
         IF Has(detachables, id)
         THEN /\ Has(detachables', id)
              /\ ~detachables'[id].isDetached
              /\ ~detachables'[id].isDocked
              /\ ~detachables'[id].isMaximized
              /\ detachables'[id].dockedSide = "null"
         ELSE detachables' = detachables]_vars

C17_DetachWithoutRectIsNoOp ==
  [][\A id \in Ids :
       ( /\ lastOp'.op = "detach" /\ lastOp'.id = id
         /\ Has(detachables, id) /\ detachables[id].slotRect = Null )
       => detachables' = detachables /\ globalZIndex' = globalZIndex]_vars

\* detach has just been called on a frame whose rectangle was reset to null
\* after an earlier detach
C17_DetachAfterSlotResetWitness ==
  /\ lastOp.op = "detach" /\ Has(detachables, lastOp.id)
  /\ detachables[lastOp.id].slotRect = Null
  /\ detachables[lastOp.id].size # detachables[lastOp.id].originalSize

\* C18: a step that leaves the mounted window maximized or minimized writes
\* nothing to the store: the entry stays what it was while the window was
\* floating
C18_NoWriteWhileMaximizedOrMinimized ==
  [][(hook # Null /\ hook' # Null /\ (hook'.isMaximized \/ hook'.isMinimized))
       => stored' = stored]_vars

\* C19: every entry in the store holds position and size and nothing else
C19_EntryHoldsPositionAndSizeOnly ==
  stored # Null => DOMAIN stored = {"position", "size"}

\* C20: a window created over a prior entry takes its position and size from
\* the entry and starts neither maximized nor minimized
C20_PriorEntrySeedsGeometryOnly ==
  [][(hook = Null /\ hook' # Null /\ stored # Null)
       => /\ hook'.position = stored.position
          /\ hook'.size = stored.size
          /\ ~hook'.isMaximized
          /\ ~hook'.isMinimized]_vars

\* a state change of the window that is its close, its unmount, its creation
HookCloses == hook # Null /\ hook' # Null /\ hook.isVisible /\ ~hook'.isVisible
HookUnmounts == hook # Null /\ hook' = Null /\ hookZIndex' = hookZIndex
HookMounts == hook = Null /\ hook' # Null

\* C21: close removes the stored entry, which then stays absent while the
\* window is closed; the unmount of a window that was not closed leaves the
\* entry in the store
C21_EntryRemovedOnCloseOnly ==
  [][/\ HookCloses => stored' = Null
     /\ (hook' # Null /\ ~hook'.isVisible) => stored' = Null
     /\ (HookUnmounts /\ hook.isVisible) => stored' = stored]_vars

\* C22: no failure of the store leaves the hook: a creation over a getItem
\* that throws or over text that is not JSON yields the default state, a
\* setItem that throws leaves the entry and lets the state change complete,
\* and a removeItem that throws is caught
C22_StoreFailureNeverEscapes ==
  [][/\ ~lastStore'.escaped
     /\ (HookMounts /\ persist /\ ("get" \in storeFault \/ stored = Malformed))
          => hook' = getInitialState(Null, viewport, hookZIndex')
     /\ (hook' # Null /\ "set" \in storeFault) => stored' = stored]_vars

\* C23: with persist off no step of the window reads, writes or removes the
\* entry: the store keeps what it held, no call reaches it, and a creation
\* yields the default state whatever the store holds
C23_NoStoreAccessWithoutPersist ==
  [][~persist =>
       /\ stored' = stored
       /\ lastStore'.calls = {}
       /\ HookMounts => hook' = getInitialState(Null, viewport, hookZIndex')]_vars

\* with persist off and an entry of an earlier session in the store, the
\* window has been created, dragged and maximized
C23_MaximizedWithoutPersistWitness ==
  /\ ~persist
  /\ stored \notin {Null, Malformed}
  /\ hook # Null /\ hook.isMaximized
  /\ hook.previousPosition \in HookPositions

\* C24 (as stated): detach(id) on a frame that is already Floating, Docked or
\* Maximized changes nothing: position, size, zIndex, aspect ratio and mode
\* flags stay as they were.
C24_DetachOutsideInlineIsNoOp ==
  [][\A id \in Ids :
       ( /\ lastOp'.op = "detach" /\ lastOp'.id = id
         /\ Has(detachables, id) /\ ~RendersInline(detachables[id]) )
       => /\ detachables'[id] = detachables[id]
          /\ globalZIndex' = globalZIndex]_vars

\* C25 (as stated): a dock request takes effect only from Floating: a momentum
\* tick that hits an edge at docking speed while the frame is Maximized,
\* Docked or Inline leaves the record unchanged.
C25_DockOnlyFromFloating ==
  [][\A id \in Ids :
       ( /\ lastOp'.op = "tick" /\ lastOp'.id = id
         /\ lastOp'.arg \in {"dockLeft", "dockRight"}
         /\ Has(detachables, id) /\ ~PlainFloating(detachables[id]) )
       => detachables'[id] = detachables[id]]_vars

\* the step is the undock of a frame shown as a docked handle
UndockOfDocked(id) ==
  /\ lastOp'.op = "undock" /\ lastOp'.id = id
  /\ Has(detachables, id) /\ detachables[id].isDocked

\* C26 (as stated): undock on a frame docked on side s with handle offset y
\* returns it to Floating with position.y = y and position.x = 20 for the
\* left side, viewport width - frame width - 20 for the right side; the size
\* is unchanged and the dock side cleared.
C26_UndockGeometry ==
  [][\A id \in Ids :
       UndockOfDocked(id) =>
         LET old == detachables[id]
             new == detachables'[id]
         IN /\ PlainFloating(new)
            /\ new.dockedSide = "null"
            /\ new.position.y = old.dockedY
            /\ new.position.x = IF old.dockedSide = "left" THEN Px(20)
                                ELSE viewport.width - old.size.width - Px(20)
            /\ new.size = old.size]_vars

\* C26 (restricted): the same geometry, leaving aside whether the frame ends
\* Floating
C26_UndockGeometryOnly ==
  [][\A id \in Ids :
       UndockOfDocked(id) =>
         LET old == detachables[id]
             new == detachables'[id]
         IN /\ ~new.isDocked
            /\ new.dockedSide = "null"
            /\ new.position.y = old.dockedY
            /\ new.position.x = IF old.dockedSide = "left" THEN Px(20)
                                ELSE viewport.width - old.size.width - Px(20)
            /\ new.size = old.size]_vars

C28_GeometryFixedOutsideFloating ==
  [][\A id \in Ids :
       ( /\ lastOp'.op \in {"dragStop", "resizeStop", "tick"} /\ lastOp'.id = id
         /\ Has(detachables, id)
         /\ (detachables[id].isMaximized \/ detachables[id].isDocked) )
       => /\ detachables'[id].position = detachables[id].position
          /\ detachables'[id].size = detachables[id].size]_vars

\* C28 (restricted): a resize stop delivered while the frame is Maximized
\* leaves position and size unchanged.
C28_ResizeStopWhileMaximized ==
  [][\A id \in Ids :
       ( /\ lastOp'.op = "resizeStop" /\ lastOp'.id = id
         /\ Has(detachables, id) /\ detachables[id].isMaximized )
       => /\ detachables'[id].position = detachables[id].position
          /\ detachables'[id].size = detachables[id].size]_vars

\* C29 (as stated, for the window of useGlideFrame): restore on a window that
\* is neither maximized nor minimized, or that holds no snapshot, leaves
\* position, size, mode and zIndex unchanged.
C29_HookRestoreOnlyWithSnapshot ==
  [][( /\ lastStore'.op = "restore" /\ hook # Null /\ hook' # Null
       /\ \/ ~hook.isMaximized /\ ~hook.isMinimized
          \/ hook.previousPosition = Null )
     => /\ hook'.position = hook.position
        /\ hook'.size = hook.size
        /\ hook'.isMaximized = hook.isMaximized
        /\ hook'.isMinimized = hook.isMinimized
        /\ hook'.zIndex = hook.zIndex]_vars

\* C29 (restricted to the detachable frame): restore on a frame that is not
\* Maximized, or whose snapshot is null, leaves the record and the counter
\* unchanged.
C29_RestoreOnlyWhenMaximized ==
  [][\A id \in Ids :
       ( /\ lastOp'.op = "restore" /\ lastOp'.id = id
         /\ Has(detachables, id)
         /\ ~(detachables[id].isMaximized /\ detachables[id].preMaximizeState # Null) )
       => /\ detachables'[id] = detachables[id]
          /\ globalZIndex' = globalZIndex]_vars

\* the step is maximize(id) on a frame that is already Maximized
MaximizeOfMaximized(id) ==
  /\ lastOp'.op = "maximize" /\ lastOp'.id = id
  /\ Has(detachables, id) /\ detachables[id].isMaximized

\* C30 (as stated): maximize on a Maximized frame changes nothing (position,
\* size, snapshot, zIndex), and after detach, maximize, maximize, restore the
\* frame has the position and size it had before the first maximize.
C30_MaximizeIdempotent ==
  [][\A id \in Ids :
       /\ MaximizeOfMaximized(id)
            => detachables'[id] = detachables[id] /\ globalZIndex' = globalZIndex
       /\ maxTrack'[id].stage = "dmmr"
            => /\ Has(detachables', id)
               /\ detachables'[id].position = maxTrack'[id].position
               /\ detachables'[id].size = maxTrack'[id].size
               /\ ~detachables'[id].isMaximized]_vars

\* C30 (restricted): the same, for a frame that was not Maximized when detach
\* was called.
C30_MaximizeIdempotentFromUnmaximized ==
  [][\A id \in Ids :
       /\ MaximizeOfMaximized(id)
            => detachables'[id] = detachables[id] /\ globalZIndex' = globalZIndex
       /\ (maxTrack'[id].stage = "dmmr" /\ ~maxTrack'[id].fromMaximized)
            => /\ Has(detachables', id)
               /\ detachables'[id].position = maxTrack'[id].position
               /\ detachables'[id].size = maxTrack'[id].size
               /\ ~detachables'[id].isMaximized]_vars

\* C31: every momentum animation stops after finitely many ticks when the
\* ticks keep being delivered: a tick that does not continue takes its
\* callback off the queue, one that continues has applied the friction and
\* still exceeds MOMENTUM_MIN_VELOCITY on some axis, and an active animation
\* leads to a state with isMomentumActive false and no tick pending.
C31_MomentumTerminates ==
  /\ [][\A id \in SoloIds :
          (lastOp'.op = "tick" /\ lastOp'.id = id) =>
            IF lastOp'.arg = "continue"
            THEN \E t \in pending[id] \ pending'[id], u \in pending'[id] \ pending[id] :
                   /\ u.velocity = [vx |-> Friction(t.velocity.vx),
                                    vy |-> Friction(t.velocity.vy)]
                   /\ \/ Abs(u.velocity.vx) > MOMENTUM_MIN_VELOCITY
                      \/ Abs(u.velocity.vy) > MOMENTUM_MIN_VELOCITY
            ELSE /\ pending'[id] \subseteq pending[id]
                 /\ pending'[id] # pending[id]]_vars
  /\ \A id \in SoloIds :
       renderer[id].isMomentumActive
         ~> (~renderer[id].isMomentumActive /\ pending[id] = {})

\* a throw has run through several ticks and come to rest away from the edges
C31_CameToRestWitness ==
  /\ lastOp.op = "tick" /\ lastOp.arg = "rest"
  /\ Has(detachables, lastOp.id)
  /\ ~renderer[lastOp.id].isMomentumActive
  /\ pending[lastOp.id] = {}
  /\ detachables[lastOp.id].position.x > 0

\* the tick t of frame id ran in this step, on a Floating frame
TickRan(id, t) ==
  /\ lastOp'.op = "tick" /\ lastOp'.id = id
  /\ t \in pending[id] /\ t \notin pending'[id]
  /\ Has(detachables, id) /\ PlainFloating(detachables[id])

\* the tick reaches the left or the right bound of the viewport
HitsLeftBound(t) == t.position.x + t.velocity.vx <= 0
HitsRightBound(t, size) == t.position.x + t.velocity.vx >= viewport.width - size.width

\* C32: a tick that hits the left or right viewport bound with total speed
\* below DOCK_MIN_VELOCITY ends the animation without docking: the frame stays
\* Floating with x at the bound, no tick is scheduled and isMomentumActive is
\* false.
C32_SlowEdgeHitStops ==
  [][\A id \in SoloIds : \A t \in pending[id] :
       ( /\ TickRan(id, t)
         /\ HitsLeftBound(t) \/ HitsRightBound(t, detachables[id].size)
         /\ SpeedSquared(t.velocity) < DOCK_MIN_VELOCITY * DOCK_MIN_VELOCITY )
       => /\ PlainFloating(detachables'[id])
          /\ detachables'[id].position.x =
               IF HitsLeftBound(t) /\ detachables[id].size.width < viewport.width THEN 0
               ELSE viewport.width - detachables[id].size.width
          /\ pending'[id] = pending[id] \ {t}
          /\ ~renderer'[id].isMomentumActive]_vars

\* a throw toward the left edge has slowed below the docking speed on the way
\* and stopped at x = 0
C32_SoftStopWitness ==
  /\ lastOp.op = "tick" /\ lastOp.arg = "edge"
  /\ Has(detachables, lastOp.id)
  /\ PlainFloating(detachables[lastOp.id])
  /\ detachables[lastOp.id].position.x = 0
  /\ pending[lastOp.id] = {}

\* C33 (as stated): for a frame no larger than the viewport, every position
\* written by a momentum tick lies in [0, viewport width - frame width] x
\* [0, viewport height - frame height], and a dock produced by a tick records
\* a handle offset within [0, viewport height - frame height].
C33_TickStaysInViewport ==
  [][\A id \in Ids :
       ( /\ lastOp'.op = "tick" /\ lastOp'.id = id
         /\ Has(detachables, id) /\ Has(detachables', id)
         /\ detachables[id].size.width <= viewport.width
         /\ detachables[id].size.height <= viewport.height )
       => LET new == detachables'[id]
              maxX == viewport.width - new.size.width
              maxY == viewport.height - new.size.height
          IN IF lastOp'.arg \in {"dockLeft", "dockRight"}
             THEN 0 <= new.dockedY /\ new.dockedY <= maxY
             ELSE /\ 0 <= new.position.x /\ new.position.x <= maxX
                  /\ 0 <= new.position.y /\ new.position.y <= maxY]_vars

\* C33 (restricted): the same bounds, for the ticks of the renderer that is
\* mounted for the frame.
C33_LiveTickStaysInViewport ==
  [][\A id \in Ids :
       ( /\ lastOp'.op = "tick" /\ lastOp'.id = id
         /\ Has(detachables, id) /\ Has(detachables', id)
         /\ \E t \in pending[id] \ pending'[id] : t.frozen = Null
         /\ detachables[id].size.width <= viewport.width
         /\ detachables[id].size.height <= viewport.height )
       => LET new == detachables'[id]
              maxX == viewport.width - new.size.width
              maxY == viewport.height - new.size.height
          IN IF lastOp'.arg \in {"dockLeft", "dockRight"}
             THEN 0 <= new.dockedY /\ new.dockedY <= maxY
             ELSE /\ 0 <= new.position.x /\ new.position.x <= maxX
                  /\ 0 <= new.position.y /\ new.position.y <= maxY]_vars

\* C34: the velocity sample does not outlive a drag: at every drag-start the
\* velocity estimate is (0, 0) and no last position is recorded, so that a
\* release throws only with what the moves of its own drag sampled
C34_SampleEndsWithDrag ==
  [][\A id \in Ids :
       (lastOp'.op = "dragStart" /\ lastOp'.id = id)
         => /\ renderer'[id].velocityRef = [vx |-> 0, vy |-> 0]
            /\ renderer'[id].lastPositionRef = Null]_vars

\* C34, the part that the drag-stop handler does by itself: a release leaves
\* no sample behind
C34_ReleaseClearsSample ==
  [][\A id \in Ids :
       (lastOp'.op = "dragStop" /\ lastOp'.id = id /\ Has(detachables', id))
         => /\ renderer'[id].velocityRef = [vx |-> 0, vy |-> 0]
            /\ renderer'[id].lastPositionRef = Null]_vars

\* C35: a drag-start cancels the momentum animation in flight: while the drag
\* it began is in progress no animation frame of the frame is outstanding, so
\* that no tick can run and move the frame, and isMomentumActive is false
C35_DragStartCancelsMomentum ==
  \A id \in Ids :
    renderer[id].dragging
      => (pending[id] = {} /\ ~renderer[id].isMomentumActive)

\* C35 for the animation of the renderer that is mounted: while a drag is in
\* progress none of its own frames is outstanding and isMomentumActive is false
C35_DragStartCancelsOwnMomentum ==
  \A id \in Ids :
    renderer[id].dragging
      => /\ \A t \in pending[id] : t.frozen # Null
         /\ ~renderer[id].isMomentumActive

\* C36: no write to the key-value store happens during a momentum animation:
\* the ticks of a throw produce no store writes
C36_NoStoreWriteDuringMomentum ==
  lastStore.op = "tick" => "set" \notin lastStore.calls

\* C36 with persistence off: no tick reaches the store
C36_NoStoreWriteWithoutPersist ==
  (lastStore.op = "tick" /\ ~persist) => lastStore.calls = {}

\* C37: in useGlideFrame, from a normal state with position p and size s, after
\* any non-empty sequence of minimize and maximize a restore sets position p
\* and size s, clears isMinimized and isMaximized and resets previousPosition
\* and previousSize to null
C37_RestoreAfterModes ==
  [][(lastStore'.op = "restore" /\ modeTrack # Null /\ ~modeTrack.restored
        /\ modeTrack.pure)
       => /\ hook'.position = modeTrack.position
          /\ hook'.size = modeTrack.size
          /\ ~hook'.isMinimized /\ ~hook'.isMaximized
          /\ hook'.previousPosition = Null /\ hook'.previousSize = Null]_vars

\* a restore has just returned a window that was dragged and resized, then
\* taken through both modes, to the geometry of its normal state
C37_RestoredAfterBothWitness ==
  /\ lastStore.op = "restore" /\ modeTrack # Null
  /\ modeTrack.restored /\ modeTrack.pure /\ modeTrack.modes = 2
  /\ hook.position = modeTrack.position /\ hook.size = modeTrack.size
  /\ hook.position \in HookPositions /\ hook.size \in HookSizes

\* the index of the entry with the id, 0 when there is none
FrameIndex(list, id) ==
  IF \E k \in 1..Len(list) : list[k].id = id
  THEN CHOOSE k \in 1..Len(list) : list[k].id = id
  ELSE 0

\* the list without its k-th entry
WithoutIndex(list, k) ==
  [j \in 1..(Len(list) - 1) |-> IF j < k THEN list[j] ELSE list[j + 1]]

\* C38: after any sequence of openFrame, closeFrame and closeAllFrames the
\* frames list holds at most one entry per id; openFrame with an id already
\* present replaces that entry's config in place, keeping its list position
\* (and appends otherwise); closeFrame(id) removes exactly the entry with that
\* id; closeAllFrames empties the list
C38_FramesOnePerId ==
  /\ [](\A j, k \in 1..Len(frames) : frames[j].id = frames[k].id => j = k)
  /\ [][LET k == FrameIndex(frames, lastOp'.id)
        IN /\ lastOp'.op = "openFrame"
                => /\ Len(frames') = IF k = 0 THEN Len(frames) + 1 ELSE Len(frames)
                   /\ frames'[IF k = 0 THEN Len(frames) + 1 ELSE k] = lastOp'.arg
                   /\ \A j \in 1..Len(frames) : j # k => frames'[j] = frames[j]
           /\ lastOp'.op = "closeFrame"
                => /\ FrameIndex(frames', lastOp'.id) = 0
                   /\ frames' = IF k = 0 THEN frames ELSE WithoutIndex(frames, k)
           /\ lastOp'.op = "closeAllFrames" => frames' = <<>>]_vars

\* openFrame has just replaced the config of the first of three open windows:
\* the id of the call sits at index 1, where no append could have put it
C38_ReplacedInPlaceWitness ==
  /\ lastOp.op = "openFrame"
  /\ Len(frames) = 3
  /\ frames[1] = lastOp.arg
  /\ frames[2].id # lastOp.id /\ frames[3].id # lastOp.id

C40_ModesExclusiveWithSnapshot ==
  hook # Null
    => /\ ~(hook.isMinimized /\ hook.isMaximized)
       /\ (hook.isMinimized \/ hook.isMaximized)
            => (hook.previousPosition # Null /\ hook.previousSize # Null)

\* C40 without the snapshot: the two mode flags are never both true
C40_ModesExclusive ==
  hook # Null => ~(hook.isMinimized /\ hook.isMaximized)

====
